---- MODULE Spec2Model ----
(***************************************************************************)
(* A model of the tracer package: the *Error type with its Context and     *)
(* trace slices, the Mask operation, and the Is / cause matching.          *)
(*                                                                         *)
(* Go values are modelled with their sharing: an *Error is an index into   *)
(* heap, a slice is a header (backing array, len, cap) into arrays, and    *)
(* append writes in place when the capacity allows it.  Every caller is a  *)
(* goroutine that runs Mask statement block by statement block.            *)
(***************************************************************************)
EXTENDS Integers, Sequences, FiniteSets, TLC

\* The number of Mask calls on an error (not nil) explored, over all callers.
MaxCalls == 4

\* The capacity of the context buffer a caller made and passes as ctx... .
BufCap == 3

\* The goroutines that call Mask.
Callers == {1, 2}

-----------------------------------------------------------------------------
(* Error values (Go interface values of type error). *)

Nil == [kind |-> "nil", id |-> 0]

ForeignError(f) == [kind |-> "foreign", id |-> f]

Pointer(i) == [kind |-> "ptr", id |-> i]

\* The errors of other types the program has, by their messages: two made by
\* fmt.Errorf with the same message (each call returns another pointer), one
\* made by errors.New(""), and one value of a type of the caller's package
\* that is a slice (type listError []string), with the message of the first.
ForeignMessage == <<"testErrorOne", "testErrorOne", "", "testErrorOne">>

\* The dynamic type of each of them, as fmt.Sprintf("%T", err) prints it.
ForeignType ==
    <<"*errors.errorString", "*errors.errorString", "*errors.errorString",
      "main.listError">>

\* The types whose values Go cannot compare with ==.
UncomparableTypes == {"main.listError"}

ForeignErrors == {ForeignError(f) : f \in DOMAIN ForeignMessage}

\* The error without a message, and the error of the uncomparable type.
EmptyMessageError == ForeignError(3)

UncomparableError == ForeignError(4)

Ctx(k, v) == [Key |-> k, Val |-> v]

ZeroContext == Ctx("", "")

ZeroString == <<>>

-----------------------------------------------------------------------------
(* Slices. *)

NilSlice == [nil |-> TRUE, arr |-> 0, len |-> 0, cap |-> 0]

\* []T{} : not nil, no backing array.
EmptySlice == [nil |-> FALSE, arr |-> 0, len |-> 0, cap |-> 0]

\* The elements s[0:len(s)].
SliceVal(arrs, s) == [j \in 1..s.len |-> arrs[s.arr][j]]

\* The capacity append grows to (below the 256 element threshold, where the
\* allocator's size classes hold these element counts exactly).
growslice(oldCap, newLen) ==
    IF newLen > 2 * oldCap THEN newLen ELSE 2 * oldCap

\* Addresses: the k-th object allocated by goroutine t (0: before any caller
\* runs).  Every allocation returns an address not in use.
Stride == Cardinality(Callers) + 1

Addr(t, k) == k * Stride + t

\* new: the next free address of goroutine t in store m.
NewAddr(m, t) ==
    Addr(t, 1 + Cardinality({a \in DOMAIN m : a % Stride = t}))

\* append(s, xs...) run by goroutine t: in place when cap(s) allows, else
\* into a new array.
append(arrs, s, xs, zero, t) ==
    LET newLen == s.len + Len(xs) IN
    IF Len(xs) = 0
    THEN [slice |-> s, arrays |-> arrs]
    ELSE IF newLen <= s.cap
    THEN [slice |-> [s EXCEPT !.len = newLen],
          arrays |-> [arrs EXCEPT ![s.arr] =
                        [j \in 1..s.cap |->
                            IF j > s.len /\ j <= newLen
                            THEN xs[j - s.len] ELSE @[j]]]]
    ELSE LET newCap == growslice(s.cap, newLen)
             data == [j \in 1..newCap |->
                        IF j <= s.len THEN arrs[s.arr][j]
                        ELSE IF j <= newLen THEN xs[j - s.len]
                        ELSE zero]
             a == NewAddr(arrs, t)
         IN [slice |-> [nil |-> FALSE, arr |-> a,
                        len |-> newLen, cap |-> newCap],
             arrays |-> arrs @@ (a :> data)]

\* The slice of a call's variadic arguments p1, ..., pk: nil for none, else
\* a new array of exactly k elements.
variadic(arrs, xs, t) ==
    IF Len(xs) = 0
    THEN [slice |-> NilSlice, arrays |-> arrs]
    ELSE LET a == NewAddr(arrs, t)
         IN [slice |-> [nil |-> FALSE, arr |-> a,
                        len |-> Len(xs), cap |-> Len(xs)],
             arrays |-> arrs @@ (a :> xs)]

-----------------------------------------------------------------------------
(* The state. *)

VARIABLES
    heap,     \* the *Error instances: heap[i] is the struct behind Pointer(i)
    arrays,   \* the backing arrays of all slices
    pc,       \* pc[t]: where caller t is inside Mask ("idle": not in a call)
    frame,    \* frame[t]: the locals e, n, c and the call site of t's call
    err,      \* err[t]: the error caller t holds (the last non-nil result)
    ret,      \* ret[t]: what t's last Mask call returned (nil until it returns)
    arg,      \* arg[t]: what t's last Mask call was given
    root,     \* root[t]: the error t's chain was started from
    calls,    \* calls[t]: the context and site of each Mask call of the chain
    pre,      \* pre[t]: the argument's fields when t's last call began
    ncalls,   \* the number of Mask calls made
    stdout,   \* the lines the process has printed
    status,   \* the process: running, exited with a code, or panicking
    inPanic,  \* where the process is inside Panic, and Panic's argument
    result    \* the last call of Is, Json or Maskf, and what it returned

vars == <<heap, arrays, pc, frame, err, ret, arg, root, calls, pre, ncalls,
          stdout, status, inPanic, result>>

\* The process runs.
Running == [kind |-> "running"]

\* Panic has not been called.
NotInPanic == [pc |-> "main", err |-> Nil]

\* The variables only Panic writes.
process == <<stdout, status, inPanic>>

\* No call of Is, Json or Maskf has been made.
NoResult == [op |-> "none"]

\* The statically declared markers (kinds) of the application.
Markers == {Pointer(Addr(0, 1)), Pointer(Addr(0, 2)), Pointer(Addr(0, 3))}

\* The caller's buffer: ctx := make([]Context, 1, BufCap); ctx[0] = ...
BufElems == <<Ctx("annotation", "foo bar")>>

Buf == [nil |-> FALSE, arr |-> Addr(0, 3), len |-> Len(BufElems), cap |-> BufCap]

\* The context arguments of a Mask call: none, a literal pair (with the key
\* the first marker's context has already), or the caller's buffer spread as
\* ctx... .
CtxArgs ==
    { [spread |-> FALSE, elems |-> <<>>],
      [spread |-> FALSE, elems |-> <<Ctx("code", "X")>>],
      [spread |-> TRUE, elems |-> BufElems] }

\* The call site (file, line) runtime.Caller reports: every caller is its
\* own file, and the k-th Mask call of its chain is at line k.
CallSite(t, k) == <<t, k>>

\* The errors a caller starts a chain from.
ChainRoots == {ForeignError(1), Pointer(Addr(0, 1)), Pointer(Addr(0, 3))}

NoFrame == [e |-> 0, n |-> 0, c |-> NilSlice, site |-> <<0, 0>>]

NoPre == [Context |-> <<>>, trace |-> <<>>, cause |-> Nil]

\* The markers as the application declares them: two with the same fields
\* (each with its own Context array) and an empty one, &Error{}.
InitialHeap ==
    (Addr(0, 1) :>
        [Context |-> [nil |-> FALSE, arr |-> Addr(0, 1), len |-> 1, cap |-> 1],
         Description |-> "alreadyExistsError",
         cause |-> Nil, trace |-> NilSlice])
    @@ (Addr(0, 2) :>
        [Context |-> [nil |-> FALSE, arr |-> Addr(0, 2), len |-> 1, cap |-> 1],
         Description |-> "alreadyExistsError",
         cause |-> Nil, trace |-> NilSlice])
    @@ (Addr(0, 3) :>
        [Context |-> NilSlice, Description |-> "",
         cause |-> Nil, trace |-> NilSlice])

InitialArrays ==
    (Addr(0, 1) :> <<Ctx("code", "invalidArgument")>>)
    @@ (Addr(0, 2) :> <<Ctx("code", "invalidArgument")>>)
    @@ (Addr(0, 3) :>
        [j \in 1..BufCap |->
            IF j <= Len(BufElems) THEN BufElems[j] ELSE ZeroContext])

Init ==
    /\ heap = InitialHeap
    /\ arrays = InitialArrays
    /\ pc = [t \in Callers |-> "idle"]
    /\ frame = [t \in Callers |-> NoFrame]
    /\ err = [t \in Callers |-> Nil]
    /\ ret = [t \in Callers |-> Nil]
    /\ arg = [t \in Callers |-> Nil]
    /\ root = [t \in Callers |-> Nil]
    /\ calls = [t \in Callers |-> <<>>]
    /\ pre = [t \in Callers |-> NoPre]
    /\ ncalls = 0
    /\ stdout = <<>>
    /\ status = Running
    /\ inPanic = NotInPanic
    /\ result = NoResult

-----------------------------------------------------------------------------
(* The methods of *Error. *)

\* Copy: a new instance whose Context and trace are new arrays.
Copy(h, arrs, e, t) ==
    LET ctx == append(arrs, EmptySlice, SliceVal(arrs, h[e].Context),
                      ZeroContext, t)
        trc == append(ctx.arrays, EmptySlice, SliceVal(arrs, h[e].trace),
                      ZeroString, t)
    IN [error |-> [Context |-> ctx.slice,
                   Description |-> h[e].Description,
                   cause |-> h[e].cause,
                   trace |-> trc.slice],
        arrays |-> trc.arrays]

\* Error(): the description, or "ERROR".
Error(h, e) ==
    IF h[e].Description # "" THEN h[e].Description ELSE "ERROR"

\* err.Error() of any non-nil error.
Message(h, x) ==
    IF x.kind = "ptr" THEN Error(h, x.id) ELSE ForeignMessage[x.id]

Unwrap(h, e) == h[e].cause

causeUnresolved(h, x) == x

cause(h, x) ==
    IF x = Nil THEN Nil
    ELSE IF x.kind = "ptr" /\ h[x.id].cause # Nil THEN h[x.id].cause
    ELSE x

\* The dynamic type of an error value (none for nil).
DynamicType(x) ==
    IF x = Nil THEN "nil"
    ELSE IF x.kind = "ptr" THEN "*tracer.Error"
    ELSE ForeignType[x.id]

\* The outcomes of a call that returns a boolean or panics.
Panics == [panics |-> TRUE, value |-> FALSE]
ReturnsTrue == [panics |-> FALSE, value |-> TRUE]
ReturnsFalse == [panics |-> FALSE, value |-> FALSE]

\* a == b on two values of type error: a run-time panic when both have the
\* same dynamic type and that type is uncomparable (*Error and the nil
\* interface are comparable), else whether they are the same value (pointers
\* by identity); values of different dynamic types are not equal.
Equal(a, b) ==
    IF /\ a.kind = "foreign" /\ b.kind = "foreign"
       /\ DynamicType(a) = DynamicType(b)
       /\ DynamicType(a) \in UncomparableTypes
    THEN Panics
    ELSE IF a = b THEN ReturnsTrue ELSE ReturnsFalse

IsByMessage(h, e, x) ==
    IF x # Nil /\ Message(h, Pointer(e)) = Message(h, x)
    THEN ReturnsTrue ELSE ReturnsFalse

\* (*Error).Is: cause(e) == cause(x), with the outcome of the comparison.
Is(h, e, x) == Equal(cause(h, Pointer(e)), cause(h, x))

\* The call e.Is(x) returns true.
IsTrue(h, e, x) == Is(h, e, x) = ReturnsTrue

\* The call e.Is(x) returns false.
IsFalse(h, e, x) == Is(h, e, x) = ReturnsFalse

\* fmt.Sprintf("%s:%d", f, l)
FormatSite(site) == <<site[1], ":", site[2]>>

\* The fields of instance i as values.
View(h, arrs, i) ==
    [Context |-> SliceVal(arrs, h[i].Context),
     Description |-> h[i].Description,
     cause |-> h[i].cause,
     trace |-> SliceVal(arrs, h[i].trace)]

-----------------------------------------------------------------------------
(* Rendering. A JSON text is modelled by the value it denotes: "{}" is the
   object without members, "null" is null, "[]" the array without elements. *)

JsonNull == [json |-> "null"]

JsonString(s) == [json |-> "string", value |-> s]

JsonArray(elems) == [json |-> "array", elems |-> elems]

JsonObject(members) == [json |-> "object", members |-> members]

Member(name, value) == [name |-> name, value |-> value]

\* json.Marshal of a slice: null for a nil slice, else the array.
MarshalSlice(arrs, s) ==
    IF s.nil THEN JsonNull
    ELSE JsonArray([j \in 1..s.len |-> JsonString(arrs[s.arr][j])])

\* The JSON of one Context entry.
MarshalContext(c) ==
    JsonObject(<<Member("key", JsonString(c.Key)),
                 Member("value", JsonString(c.Val))>>)

MarshalJSONWithCause(v) ==
    JsonObject(<<Member("description", JsonString(v.Description)),
                 Member("cause", JsonNull)>>)

\* MarshalJSON of an *Error with fields v: context, description (which is
\* Error()) and trace, each omitted when empty; never the cause.
MarshalJSON(v) ==
    JsonObject(
        (IF Len(v.Context) # 0
         THEN <<Member("context",
                       JsonArray([j \in 1..Len(v.Context) |->
                                     MarshalContext(v.Context[j])]))>>
         ELSE <<>>)
        \o <<Member("description",
                    JsonString(IF v.Description # "" THEN v.Description
                               ELSE "ERROR"))>>
        \o (IF Len(v.trace) # 0
            THEN <<Member("trace",
                          JsonArray([j \in 1..Len(v.trace) |->
                                        JsonString(v.trace[j])]))>>
            ELSE <<>>))

\* fmt.Sprintf("%T", err) of an error that is no *Error.
TypeName(x) == ForeignType[x.id]

\* Json: "{}" for nil; an error that is no *Error is rendered as an *Error
\* with its message and a "type" context entry.
Json(h, arrs, x) ==
    IF x = Nil THEN JsonObject(<<>>)
    ELSE IF x.kind # "ptr"
    THEN MarshalJSON([Context |-> <<Ctx("type", TypeName(x))>>,
                      Description |-> Message(h, x), trace |-> <<>>])
    ELSE MarshalJSON(View(h, arrs, x.id))

StackAlwaysArray(h, arrs, x) ==
    IF x.kind # "ptr" THEN JsonArray(<<>>)
    ELSE JsonArray([j \in 1..h[x.id].Stck.len |-> JsonString(arrs[h[x.id].Stck.arr][j])])

\* Stack: "null" for nil, "[]" for an error that is no *Error, else the
\* marshalled Stck field (stack.go line 15 reads t.Stck).
Stack(h, arrs, x) ==
    IF x = Nil THEN JsonNull
    ELSE IF x.kind # "ptr" THEN JsonArray(<<>>)
    ELSE MarshalSlice(arrs, h[x.id].Stck)

-----------------------------------------------------------------------------
(* Mask, statement block by statement block. *)

\* What a caller may pass to Mask: nil, a root while it holds no error, and
\* then the error it holds.
Arguments(t) == IF err[t] = Nil THEN {Nil} \cup ChainRoots ELSE {Nil, err[t]}

\* The fields the argument has when the call begins.
Before(h, arrs, x) ==
    IF x.kind = "ptr"
    THEN [Context |-> SliceVal(arrs, h[x.id].Context),
          trace |-> SliceVal(arrs, h[x.id].trace),
          cause |-> cause(h, x)]
    ELSE [Context |-> <<>>, trace |-> <<>>, cause |-> x]

\* The caller-side record of a call: a call on the held error continues its
\* chain, a call on a root starts a new one.
Record(t, x, ca, site) ==
    /\ arg' = [arg EXCEPT ![t] = x]
    /\ ncalls' = ncalls + 1
    /\ pre' = [pre EXCEPT ![t] = Before(heap, arrays, x)]
    /\ root' = [root EXCEPT ![t] = IF x = err[t] THEN @ ELSE x]
    /\ calls' = [calls EXCEPT ![t] =
                    IF x = err[t]
                    THEN Append(@, [c |-> ca.elems, site |-> site])
                    ELSE <<[c |-> ca.elems, site |-> site]>>]

adoptWithoutDescription(h, x, c) ==
    [Context |-> c, Description |-> "", cause |-> x, trace |-> NilSlice]

adoptWithoutCause(h, x, c) ==
    [Context |-> c, Description |-> Message(h, x), cause |-> Nil,
     trace |-> NilSlice]

\* mask.go lines 15-19: the *Error a foreign error is adopted into; it holds
\* the slice c itself.
adopt(h, x, c) ==
    [Context |-> c, Description |-> Message(h, x), cause |-> x,
     trace |-> NilSlice]

enterWithoutNilCheck(h, x, c, t) ==
    IF x.kind # "ptr"
    THEN [returns |-> FALSE,
          heap |-> h @@ (NewAddr(h, t) :>
                     [Context |-> c,
                      Description |-> IF x = Nil THEN "" ELSE Message(h, x),
                      cause |-> x, trace |-> NilSlice]),
          e |-> NewAddr(h, t)]
    ELSE [returns |-> FALSE, heap |-> h, e |-> x.id]

\* Mask lines 9-22: nil returns at once; a foreign error is adopted into a
\* new *Error; mask is entered with e.
enter(h, x, c, t) ==
    IF x = Nil
    THEN [returns |-> TRUE, heap |-> h, e |-> 0]
    ELSE IF x.kind # "ptr"
    THEN [returns |-> FALSE,
          heap |-> h @@ (NewAddr(h, t) :> adopt(h, x, c)),
          e |-> NewAddr(h, t)]
    ELSE [returns |-> FALSE, heap |-> h, e |-> x.id]

wrapChains(h, arrs, e, t) ==
    LET cp == Copy(h, arrs, e, t) IN
    [heap |-> h @@ (NewAddr(h, t) :> [cp.error EXCEPT !.cause = Pointer(e)]),
     arrays |-> cp.arrays, n |-> NewAddr(h, t)]

wrapRewritesCause(h, arrs, e, t) ==
    IF h[e].cause = Nil
    THEN LET cp == Copy(h, arrs, e, t) IN
         [heap |-> h @@ (NewAddr(h, t) :> [cp.error EXCEPT !.cause = Pointer(e)]),
          arrays |-> cp.arrays, n |-> NewAddr(h, t)]
    ELSE [heap |-> [h EXCEPT ![e].cause = Pointer(e)], arrays |-> arrs, n |-> e]

wrapAlwaysCopies(h, arrs, e, t) ==
    LET cp == Copy(h, arrs, e, t) IN
    [heap |-> h @@ (NewAddr(h, t) :>
                 [cp.error EXCEPT !.cause =
                     IF h[e].cause = Nil THEN Pointer(e) ELSE h[e].cause]),
     arrays |-> cp.arrays, n |-> NewAddr(h, t)]

wrapInPlace(h, arrs, e, t) ==
    IF h[e].cause = Nil
    THEN [heap |-> [h EXCEPT ![e].cause = Pointer(e)], arrays |-> arrs, n |-> e]
    ELSE [heap |-> h, arrays |-> arrs, n |-> e]

wrapWithoutCause(h, arrs, e, t) ==
    IF h[e].cause = Nil
    THEN LET cp == Copy(h, arrs, e, t) IN
         [heap |-> h @@ (NewAddr(h, t) :> cp.error),
          arrays |-> cp.arrays, n |-> NewAddr(h, t)]
    ELSE [heap |-> h, arrays |-> arrs, n |-> e]

\* mask lines 26-33: an *Error without a cause is copied and the original
\* becomes the copy's cause; an *Error with a cause is used as it is.
wrap(h, arrs, e, t) ==
    IF h[e].cause = Nil
    THEN LET cp == Copy(h, arrs, e, t) IN
         [heap |-> h @@ (NewAddr(h, t) :> [cp.error EXCEPT !.cause = Pointer(e)]),
          arrays |-> cp.arrays, n |-> NewAddr(h, t)]
    ELSE [heap |-> h, arrays |-> arrs, n |-> e]

\* mask lines 35-37: n.Context = append(n.Context, c...)
addContext(h, arrs, n, c, t) ==
    IF c.len # 0
    THEN LET a == append(arrs, h[n].Context, SliceVal(arrs, c), ZeroContext, t)
         IN [heap |-> [h EXCEPT ![n].Context = a.slice], arrays |-> a.arrays]
    ELSE [heap |-> h, arrays |-> arrs]

addTraceFirst(h, arrs, n, site, t) ==
    LET a == append(arrs, EmptySlice,
                    <<FormatSite(site)>> \o SliceVal(arrs, h[n].trace),
                    ZeroString, t)
    IN [heap |-> [h EXCEPT ![n].trace = a.slice], arrays |-> a.arrays]

\* mask lines 39-42: n.trace = append(n.trace, "file:line")
addTrace(h, arrs, n, site, t) ==
    LET a == append(arrs, h[n].trace, <<FormatSite(site)>>, ZeroString, t)
    IN [heap |-> [h EXCEPT ![n].trace = a.slice], arrays |-> a.arrays]

\* Mask(e, c...), lines 8-23.  The variadic slice of a call is allocated by
\* the caller; a call on nil returns before anything can refer to it.
MaskCall(t, x, ca, site) ==
    /\ pc[t] = "idle"
    /\ x \in Arguments(t)
    /\ x # Nil => ncalls < MaxCalls
    /\ LET v == IF ca.spread THEN [slice |-> Buf, arrays |-> arrays]
                ELSE IF x = Nil THEN [slice |-> NilSlice, arrays |-> arrays]
                ELSE variadic(arrays, ca.elems, t)
           r == enter(heap, x, v.slice, t)
       IN IF r.returns
          THEN /\ ret' = [ret EXCEPT ![t] = Nil]
               /\ arg' = [arg EXCEPT ![t] = x]
               /\ UNCHANGED <<heap, arrays, pc, frame, err, root, calls, pre,
                              ncalls, process, result>>
          ELSE /\ Record(t, x, ca, site)
               /\ heap' = r.heap
               /\ arrays' = v.arrays
               /\ pc' = [pc EXCEPT ![t] = "mask"]
               /\ frame' = [frame EXCEPT ![t] =
                              [e |-> r.e, n |-> 0, c |-> v.slice, site |-> site]]
               /\ ret' = [ret EXCEPT ![t] = Nil]
               /\ UNCHANGED <<err, process, result>>

maskCopy(t) ==
    /\ pc[t] = "mask"
    /\ LET w == wrap(heap, arrays, frame[t].e, t)
       IN /\ heap' = w.heap
          /\ arrays' = w.arrays
          /\ frame' = [frame EXCEPT ![t].n = w.n]
    /\ pc' = [pc EXCEPT ![t] = "context"]
    /\ UNCHANGED <<err, ret, arg, root, calls, pre, ncalls, process, result>>

maskContext(t) ==
    /\ pc[t] = "context"
    /\ LET a == addContext(heap, arrays, frame[t].n, frame[t].c, t)
       IN /\ heap' = a.heap
          /\ arrays' = a.arrays
    /\ pc' = [pc EXCEPT ![t] = "trace"]
    /\ UNCHANGED <<frame, err, ret, arg, root, calls, pre, ncalls, process, result>>

\* mask lines 39-44: the trace entry is appended and n is returned.
maskTrace(t) ==
    /\ pc[t] = "trace"
    /\ LET a == addTrace(heap, arrays, frame[t].n, frame[t].site, t)
       IN /\ heap' = a.heap
          /\ arrays' = a.arrays
    /\ ret' = [ret EXCEPT ![t] = Pointer(frame[t].n)]
    /\ err' = [err EXCEPT ![t] = Pointer(frame[t].n)]
    /\ pc' = [pc EXCEPT ![t] = "idle"]
    /\ frame' = [frame EXCEPT ![t] = NoFrame]
    /\ UNCHANGED <<arg, root, calls, pre, ncalls, process, result>>

Next ==
    \E t \in Callers :
        \/ \E x \in Arguments(t), ca \in CtxArgs :
              MaskCall(t, x, ca, CallSite(t, Len(calls[t]) + 1))
        \/ maskCopy(t)
        \/ maskContext(t)
        \/ maskTrace(t)

Spec == Init /\ [][Next]_vars

-----------------------------------------------------------------------------
(* What the claims speak of. *)

\* Caller t holds the result of a chain of Mask calls and is not in a call.
Holds(t) == pc[t] = "idle" /\ err[t] # Nil

\* The instance caller t holds, as values.
Held(t) == View(heap, arrays, err[t].id)

IsPrefix(p, s) == Len(p) <= Len(s) /\ SubSeq(s, 1, Len(p)) = p

\* p is s with some elements left out.
RECURSIVE IsSubsequence(_, _)
IsSubsequence(p, s) ==
    IF Len(p) = 0 THEN TRUE
    ELSE IF Len(s) = 0 THEN FALSE
    ELSE IF Head(p) = Head(s) THEN IsSubsequence(Tail(p), Tail(s))
    ELSE IsSubsequence(p, Tail(s))

\* The context pairs calls i..Len(cs) of a chain supplied, in call order.
RECURSIVE SuppliedFrom(_, _)
SuppliedFrom(cs, i) ==
    IF i > Len(cs) THEN <<>> ELSE cs[i].c \o SuppliedFrom(cs, i + 1)

Supplied(t) == SuppliedFrom(calls[t], 1)

\* The call sites of the chain's Mask calls, formatted, in call order.
SitesOf(t) == [i \in 1..Len(calls[t]) |-> FormatSite(calls[t][i].site)]

\* C1 (cause preservation): whenever a caller holds the result of N >= 1
\* successive Mask calls (with any context) on a foreign error e, of whatever
\* type, the call Is(result, e) returns true and Unwrap(result) is e.
C1_CausePreserved ==
    \A t \in Callers :
        (Holds(t) /\ err[t].kind = "ptr" /\ root[t].kind = "foreign") =>
            /\ IsTrue(heap, err[t].id, root[t])
            /\ Unwrap(heap, err[t].id) = root[t]

\* C2 (fresh instance immutability): in every state every marker has the
\* fields it was declared with (slice headers and elements, description, no
\* cause), and the result a caller holds of a chain of Mask calls started on a
\* marker k is another instance than k, with cause k.
C2_MarkerUnchanged ==
    /\ \A k \in Markers :
          /\ heap[k.id] = InitialHeap[k.id]
          /\ View(heap, arrays, k.id) = View(InitialHeap, InitialArrays, k.id)
    /\ \A t \in Callers :
          (Holds(t) /\ root[t] \in Markers) =>
              /\ err[t] # root[t]
              /\ heap[err[t].id].cause = root[t]

\* Two Mask calls on a chain started on the first marker, with context.
C2_Witness ==
    \E t \in Callers :
        /\ Holds(t) /\ root[t] = Pointer(Addr(0, 1))
        /\ Len(calls[t]) >= 2 /\ calls[t][1].c # <<>> /\ calls[t][2].c # <<>>
        /\ Len(Held(t).Context) = 3

\* C3 (trace monotonicity): the result of N successive Mask calls has a trace
\* of exactly N entries, entry i being the formatted call site of the i-th
\* call.
C3_TraceInCallOrder ==
    \A t \in Callers :
        Holds(t) =>
            /\ Len(calls[t]) >= 1
            /\ Held(t).trace = SitesOf(t)

\* A chain of three calls on a foreign error beside a chain on a marker.
C3_Witness ==
    \E t, u \in Callers :
        /\ Holds(t) /\ root[t].kind = "foreign" /\ Len(Held(t).trace) = 3
        /\ Holds(u) /\ root[u] \in Markers /\ Len(Held(u).trace) = 1

\* The context a marker was declared with (none for a foreign error).
Declared(x) ==
    IF x.kind = "ptr" THEN View(InitialHeap, InitialArrays, x.id).Context
    ELSE <<>>

\* C4 (nothing recorded is lost): no step of a Mask call removes or rewrites
\* an entry: every instance's context and trace before the step are prefixes
\* of its context and trace after it and a cause once set stays; and when a
\* call on an ErrorValue returns, the context and the trace the argument had
\* when the call began are prefixes of the result's, the resolved cause is the
\* same and the trace is strictly longer.
C4_NothingLost ==
    [][ /\ \A i \in DOMAIN heap :
              /\ IsPrefix(View(heap, arrays, i).Context,
                          View(heap', arrays', i).Context)
              /\ IsPrefix(View(heap, arrays, i).trace,
                          View(heap', arrays', i).trace)
              /\ heap[i].cause # Nil => heap'[i].cause = heap[i].cause
        /\ \A t \in Callers :
              (pc[t] = "trace" /\ pc'[t] = "idle" /\ arg[t].kind = "ptr") =>
                  /\ IsPrefix(pre[t].Context,
                              View(heap', arrays', ret'[t].id).Context)
                  /\ IsPrefix(pre[t].trace,
                              View(heap', arrays', ret'[t].id).trace)
                  /\ cause(heap', ret'[t]) = pre[t].cause
                  /\ Len(View(heap', arrays', ret'[t].id).trace)
                        > Len(pre[t].trace)
      ]_vars

\* C5 (context accumulation): the result of a chain begins with the context
\* its marker was declared with, and after it all the pairs the chain's Mask
\* calls supplied appear, in the order supplied, none overwritten.
C5_ContextAccumulates ==
    \A t \in Callers :
        Holds(t) =>
            /\ IsPrefix(Declared(root[t]), Held(t).Context)
            /\ IsSubsequence(Supplied(t),
                             SubSeq(Held(t).Context,
                                    Len(Declared(root[t])) + 1,
                                    Len(Held(t).Context)))

\* Every error value of the state.
Errors == {Nil} \cup ForeignErrors \cup {Pointer(i) : i \in DOMAIN heap}

\* C6 (kind matching), in every state: the result x of one or more Mask
\* calls on a marker k has Is(x, k) true, and Is(x, k') false for every other marker k' and
\* Is(x, e) false for every foreign error e; and for every instance a and
\* every error b, Is(a, b) is the equality of the resolved causes (the cause
\* of an ErrorValue that has one, else the error itself).
C6_KindMatching ==
    [](/\ \A t \in Callers :
             (Holds(t) /\ root[t] \in Markers) =>
                 /\ IsTrue(heap, err[t].id, root[t])
                 /\ \A k \in Markers \ {root[t]} : IsFalse(heap, err[t].id, k)
                 /\ \A e \in ForeignErrors : IsFalse(heap, err[t].id, e)
       /\ LET resolved(x) ==
                  IF x.kind = "ptr" /\ heap[x.id].cause # Nil
                  THEN heap[x.id].cause ELSE x
              errors == Errors
          IN \A a \in DOMAIN heap :
                LET ra == resolved(Pointer(a))
                IN \A b \in errors : Is(heap, a, b) = Equal(ra, resolved(b)))

\* The result of two Mask calls on the first marker, which has a twin.
C6_Witness ==
    \E t \in Callers :
        /\ Holds(t) /\ root[t] = Pointer(Addr(0, 1)) /\ Len(calls[t]) = 2
        /\ IsTrue(heap, err[t].id, Pointer(Addr(0, 1)))
        /\ IsFalse(heap, err[t].id, Pointer(Addr(0, 2)))

\* The instances the application has in hand: the markers and the results
\* the callers hold.
InHand == {k.id : k \in Markers} \cup {err[t].id : t \in {u \in Callers : Holds(u)}}

\* e and e.Copy() (made by goroutine t) are not Is-equal, and the copy is
\* Is-equal to itself.
CopyDiffers(e, t) ==
    LET cp == Copy(heap, arrays, e, t)
        c == NewAddr(heap, t)
        h2 == heap @@ (c :> cp.error)
    IN /\ IsFalse(h2, e, Pointer(c))
       /\ IsFalse(h2, c, Pointer(e))
       /\ IsTrue(h2, c, Pointer(c))

\* Two distinct foreign errors (also of the same message) never match, and
\* the result of a chain on one never matches the other.
ForeignDiffer ==
    /\ \A e1, e2 \in ForeignErrors :
          (cause(heap, e1) = cause(heap, e2)) = (e1 = e2)
    /\ \A t \in Callers, e \in ForeignErrors :
          (Holds(t) /\ root[t].kind = "foreign") =>
              Is(heap, err[t].id, e) =
                  (IF e = root[t] THEN ReturnsTrue ELSE ReturnsFalse)

C8_NilPassThrough ==
    /\ [](/\ Json(heap, arrays, Nil) = JsonObject(<<>>)
          /\ Stack(heap, arrays, Nil) = JsonNull)
    /\ [][ \A t \in Callers :
              (/\ pc[t] = "idle"
               /\ arg'[t] = Nil
               /\ <<pc'[t], arg'[t], ret'[t]>> # <<pc[t], arg[t], ret[t]>>) =>
                  /\ ret'[t] = Nil
                  /\ pc'[t] = "idle"
                  /\ UNCHANGED <<heap, arrays, err, root, calls>>
         ]_vars

\* A caller that holds the result of two Mask calls has then called Mask on
\* nil.
C8_Witness ==
    \E t \in Callers :
        /\ Holds(t) /\ Len(calls[t]) = 2
        /\ arg[t] = Nil /\ ret[t] = Nil

\* What the calls of t's chain produce on their own: the adopted context
\* (which mask extends by the same pairs again) or the marker's, then the
\* pairs of the later calls.
OwnContext(t) ==
    IF root[t].kind = "ptr"
    THEN Declared(root[t]) \o Supplied(t)
    ELSE calls[t][1].c \o Supplied(t)

\* C9 (independent chains): under every interleaving, the result a caller
\* holds has exactly the cause, context and trace that the calls of its own
\* chain produced.
C9_IndependentChains ==
    \A t \in Callers :
        Holds(t) =>
            /\ heap[err[t].id].cause = root[t]
            /\ Held(t).Context = OwnContext(t)
            /\ Held(t).trace = SitesOf(t)

\* C10 (a static marker is safe to share): no step of any interleaving of
\* Mask calls writes to a marker; the result of a Mask call on a marker k is
\* not a marker, has cause k and a trace of length 1, and Is(result, k) is
\* true; and no two callers hold the same instance.
C10_SharedMarker ==
    /\ [][ \A k \in Markers :
              /\ heap'[k.id] = heap[k.id]
              /\ View(heap', arrays', k.id) = View(heap, arrays, k.id)
         ]_vars
    /\ [](\A t \in Callers :
            (Holds(t) /\ root[t] \in Markers /\ Len(calls[t]) = 1) =>
                /\ err[t] \notin Markers
                /\ Unwrap(heap, err[t].id) = root[t]
                /\ Len(Held(t).trace) = 1
                /\ IsTrue(heap, err[t].id, root[t]))
    /\ [](\A t, u \in Callers :
            (t # u /\ Holds(t) /\ Holds(u)) => err[t] # err[u])

\* A caller holds the result of Mask on the first marker while another
\* caller is inside Mask on the same marker.
C10_Witness ==
    \E t, u \in Callers :
        /\ Holds(t) /\ root[t] = Pointer(Addr(0, 1)) /\ Len(calls[t]) = 1
        /\ pc[u] = "context" /\ arg[u] = Pointer(Addr(0, 1))
        /\ frame[u].e = Addr(0, 1)
        /\ IsTrue(heap, frame[u].n, Pointer(Addr(0, 1)))

-----------------------------------------------------------------------------
(* Claims C11 to C14, C17, C18 and C20, under Spec. *)

\* C11 (the cause is written at most once): no step changes the cause of an
\* instance that has one, and no instance disappears.
C11_CauseWrittenOnce ==
    [][ \A i \in DOMAIN heap :
           /\ i \in DOMAIN heap'
           /\ heap[i].cause # Nil => heap'[i].cause = heap[i].cause
      ]_vars

\* An instance with a cause has been passed to Mask twice more.
C11_Witness ==
    \E t \in Callers :
        /\ Holds(t) /\ Len(calls[t]) = 3
        /\ heap[err[t].id].cause = root[t]

\* C12 as claimed: Error() of the result a caller holds of a chain of Mask
\* calls is the message of the error the chain began with, whatever that
\* error is.
C12_Original ==
    \A t \in Callers :
        (Holds(t) /\ err[t].kind = "ptr") =>
            Error(heap, err[t].id) = Message(heap, root[t])

\* C12 (amended: Mask preserves the message that is not empty): Error() of
\* the result a caller holds of a chain of Mask calls is the message of the
\* error the chain began with when that message is not empty, and "ERROR"
\* when it is empty: the message of a foreign error, "ERROR" for the foreign
\* error without a message, the description of a marker, and "ERROR" for the
\* marker without a description.
C12_MessagePreserved ==
    /\ Error(heap, Addr(0, 1)) = "alreadyExistsError"
    /\ Error(heap, Addr(0, 3)) = "ERROR"
    /\ \A t \in Callers :
          (Holds(t) /\ err[t].kind = "ptr") =>
              /\ Error(heap, err[t].id)
                   = IF Message(heap, root[t]) # ""
                     THEN Message(heap, root[t]) ELSE "ERROR"
              /\ root[t].kind = "foreign" =>
                    Error(heap, err[t].id)
                      = IF ForeignMessage[root[t].id] # ""
                        THEN ForeignMessage[root[t].id] ELSE "ERROR"
              /\ root[t] = Pointer(Addr(0, 3)) =>
                    Error(heap, err[t].id) = "ERROR"
              /\ root[t] = Pointer(Addr(0, 1)) =>
                    Error(heap, err[t].id) = "alreadyExistsError"

\* One caller holds a chain of two calls, the first with context, on the
\* foreign error without a message, another a chain on the marker without a
\* description.
C12_Witness ==
    /\ Holds(1) /\ root[1] = EmptyMessageError /\ Len(calls[1]) = 2
    /\ calls[1][1].c # <<>>
    /\ err[1].kind = "ptr" /\ Error(heap, err[1].id) = "ERROR"
    /\ Holds(2) /\ root[2] = Pointer(Addr(0, 3))
    /\ Error(heap, err[2].id) = "ERROR"

\* C13 (only Mask mutates, and only the instance it returns): Error, Unwrap,
\* Is, Json and Stack are read from a state and write nothing; and every step
\* that changes the fields of an instance is a step of a caller inside Mask
\* on the instance that call returns.
C13_OnlyMaskMutates ==
    [][ \A i \in DOMAIN heap :
           View(heap', arrays', i) # View(heap, arrays, i) =>
               \E t \in Callers :
                   /\ pc[t] # "idle" /\ pc'[t] # pc[t]
                   /\ frame[t].n = i
      ]_vars

\* The names of the members of a JSON object.
Names(j) == {j.members[k].name : k \in DOMAIN j.members}

\* The value of member name of a JSON object that has it.
ValueOf(j, name) ==
    j.members[CHOOSE k \in DOMAIN j.members : j.members[k].name = name].value

\* The rendering j of an instance of fields v has no member but context,
\* description and trace, and context and trace are there exactly when they are not empty.
RendersFields(v, j) ==
    LET names == Names(j)
    IN /\ j.json = "object"
       /\ names \subseteq {"context", "description", "trace"}
       /\ ("context" \in names) = (Len(v.Context) # 0)
       /\ ("trace" \in names) = (Len(v.trace) # 0)
       /\ "context" \in names =>
             ValueOf(j, "context") =
                 JsonArray([k \in 1..Len(v.Context) |-> MarshalContext(v.Context[k])])
       /\ "trace" \in names =>
             ValueOf(j, "trace") =
                 JsonArray([k \in 1..Len(v.trace) |-> JsonString(v.trace[k])])

\* C14 as claimed: the rendering holds only context, description and trace,
\* never the cause, and each of the three is left out when it is empty.
C14_Original ==
    \A i \in InHand :
        LET v == View(heap, arrays, i)
            j == MarshalJSON(v)
        IN /\ RendersFields(v, j)
           /\ ("description" \in Names(j)) = (heap[i].Description # "")

\* C14 (amended): the rendering holds only context, description and trace,
\* never the cause; context and trace are left out when empty; description is
\* always there and is Error(): the description, or "ERROR" when it is empty.
C14_RenderedFields ==
    \A i \in InHand :
        LET v == View(heap, arrays, i)
            j == MarshalJSON(v)
        IN /\ RendersFields(v, j)
           /\ "description" \in Names(j)
           /\ ValueOf(j, "description") = JsonString(Error(heap, i))

\* A caller holds a result with context and trace whose cause is set, beside
\* the marker that has neither description, context nor trace.
C14_Witness ==
    /\ Names(MarshalJSON(View(heap, arrays, Addr(0, 3)))) = {"description"}
    /\ \E t \in Callers :
          /\ Holds(t) /\ heap[err[t].id].cause # Nil
          /\ Names(MarshalJSON(Held(t))) = {"context", "description", "trace"}

\* C17 (copy only on the first wrap): a Mask call on a foreign error creates
\* an instance; the copy step creates an instance when e has no cause and
\* keeps e, and creates nothing, when e has one; and the call returns that
\* instance, so a call on an ErrorValue with a cause returns its argument,
\* whose trace the earlier handle then reads one entry longer.
C17_CopyOnFirstWrap ==
    [][ \A t \in Callers :
           /\ (pc[t] = "idle" /\ pc'[t] = "mask") =>
                 IF arg'[t].kind = "ptr"
                 THEN frame'[t].e = arg'[t].id /\ DOMAIN heap' = DOMAIN heap
                 ELSE /\ frame'[t].e \notin DOMAIN heap
                      /\ DOMAIN heap' = DOMAIN heap \cup {frame'[t].e}
           /\ (pc[t] = "mask" /\ pc'[t] = "context") =>
                 IF heap[frame[t].e].cause # Nil
                 THEN frame'[t].n = frame[t].e /\ DOMAIN heap' = DOMAIN heap
                 ELSE /\ frame'[t].n \notin DOMAIN heap
                      /\ DOMAIN heap' = DOMAIN heap \cup {frame'[t].n}
           /\ (pc[t] = "trace" /\ pc'[t] = "idle") =>
                 /\ ret'[t] = Pointer(frame[t].n)
                 /\ (arg[t].kind = "ptr" /\ heap[arg[t].id].cause # Nil) =>
                       /\ ret'[t] = arg[t]
                       /\ View(heap', arrays', arg[t].id).trace
                             = Append(pre[t].trace, FormatSite(frame[t].site))
                 /\ (arg[t].kind # "ptr" \/ heap[arg[t].id].cause = Nil) =>
                       ret'[t] # arg[t]
      ]_vars

\* A caller's second call returned the instance it was given, while the other
\* caller's call on a marker has made a copy.
C17_Witness ==
    \E t, u \in Callers :
        /\ Holds(t) /\ Len(calls[t]) = 2 /\ ret[t] = arg[t]
        /\ pc[u] = "context" /\ frame[u].n # frame[u].e
        /\ arg[u] \in Markers

\* C18 (adoption sets the context to the supplied pairs): the result of one
\* Mask call on a foreign error has exactly the context pairs of that call,
\* each once; and the context of every result has as many entries as its
\* marker was declared with plus the pairs its chain's calls supplied.
C18_AdoptionContextExact ==
    \A t \in Callers :
        Holds(t) =>
            /\ (root[t].kind = "foreign" /\ Len(calls[t]) = 1) =>
                  Held(t).Context = calls[t][1].c
            /\ Len(Held(t).Context)
                  = Len(Declared(root[t])) + Len(Supplied(t))

\* C20 (Mask does not retain the caller's context sequence): no instance's
\* Context is a view of the caller's buffer, and the caller's buffer array
\* (up to its capacity) is never written.
C20_ContextNotRetained ==
    /\ \A i \in DOMAIN heap :
          heap[i].Context.nil \/ heap[i].Context.arr # Buf.arr
    /\ arrays[Buf.arr] = InitialArrays[Buf.arr]

-----------------------------------------------------------------------------
(* The copy-on-every-Mask variant: the Error type with Anno, Code, Desc,
   Docs, Kind, Stck and Wrpd, whose Copy keeps the Stck slice of the original,
   and the Mask that copies an *Error on every call.  Stack reads this type's
   Stck.  The same variables hold its state: heap the instances of this Error
   type, arrays the arrays behind Stck, err[t] the result held in variable t
   of a sequential program, calls[t] and root[t] the calls and the root of the
   chain that led to it. *)

\* The number of Mask calls on an error (not nil) of the sequential program.
MaxOldCalls == 5

\* testErrorTwo and alreadyExistsError as this variant's tests declare them.
InitialHeapOld ==
    (Addr(0, 1) :>
        [Anno |-> "", Code |-> "", Desc |-> "", Docs |-> "",
         Kind |-> "testErrorTwo", Stck |-> NilSlice, Wrpd |-> Nil])
    @@ (Addr(0, 2) :>
        [Anno |-> "", Code |-> "invalidArgument", Desc |-> "", Docs |-> "",
         Kind |-> "alreadyExistsError", Stck |-> NilSlice, Wrpd |-> Nil])

MarkersOld == {Pointer(i) : i \in DOMAIN InitialHeapOld}

\* The errors a chain is started from.
RootsOld == {ForeignError(1), Pointer(Addr(0, 1))}

InitOld ==
    /\ heap = InitialHeapOld
    /\ arrays = << >>
    /\ pc = [t \in Callers |-> "idle"]
    /\ frame = [t \in Callers |-> NoFrame]
    /\ err = [t \in Callers |-> Nil]
    /\ ret = [t \in Callers |-> Nil]
    /\ arg = [t \in Callers |-> Nil]
    /\ root = [t \in Callers |-> Nil]
    /\ calls = [t \in Callers |-> <<>>]
    /\ pre = [t \in Callers |-> NoPre]
    /\ ncalls = 0
    /\ stdout = <<>>
    /\ status = Running
    /\ inPanic = NotInPanic
    /\ result = NoResult

\* Copy of this variant: every field is copied, Stck as the slice header, so
\* the copy's Stck is the original's array.
CopyOld(h, arrs, e, t) == [error |-> h[e], arrays |-> arrs]

\* A new *Error{Anno: err.Error()}.
AnnoOnly(h, x) ==
    [Anno |-> Message(h, x), Code |-> "", Desc |-> "", Docs |-> "",
     Kind |-> "", Stck |-> NilSlice, Wrpd |-> Nil]

\* mask of this variant (part_000 lines 34-65), called by Mask for an error
\* that is not nil: a foreign error gets a new *Error, an *Error is copied;
\* Wrpd is set when it is not set yet; the call site is appended to Stck.
maskOld(h, arrs, x, site, t) ==
    LET ok == x.kind = "ptr"
        cp == IF ok THEN CopyOld(h, arrs, x.id, t)
              ELSE [error |-> AnnoOnly(h, x), arrays |-> arrs]
        e  == IF ~ok \/ cp.error.Wrpd = Nil
              THEN [cp.error EXCEPT !.Wrpd = x] ELSE cp.error
        a  == append(cp.arrays, e.Stck, <<FormatSite(site)>>, ZeroString, t)
        n  == NewAddr(h, t)
    IN [heap |-> h @@ (n :> [e EXCEPT !.Stck = a.slice]),
        arrays |-> a.arrays, e |-> n]

\* The fields of an instance of this variant as values.
ViewOld(h, arrs, i) ==
    [Anno |-> h[i].Anno, Code |-> h[i].Code, Desc |-> h[i].Desc,
     Docs |-> h[i].Docs, Kind |-> h[i].Kind,
     Stck |-> SliceVal(arrs, h[i].Stck), Wrpd |-> h[i].Wrpd]

\* What the statement  v_t = Mask(x)  may be given: nil, a root, or the result
\* held in either variable.
ArgumentsOld == {Nil} \cup RootsOld \cup {err[u] : u \in Callers}

\* v_t = Mask(x) of this variant (part_000 lines 9-15), at call site site.
MaskOld(t, x, site) ==
    /\ x \in ArgumentsOld
    /\ x # Nil => ncalls < MaxOldCalls
    /\ arg' = [arg EXCEPT ![t] = x]
    /\ IF x = Nil
       THEN /\ ret' = [ret EXCEPT ![t] = Nil]
            /\ UNCHANGED <<heap, arrays, err, root, calls, ncalls>>
       ELSE LET m == maskOld(heap, arrays, x, site, t)
                u == IF x.kind = "ptr" /\ \E w \in Callers : err[w] = x
                     THEN CHOOSE w \in Callers : err[w] = x ELSE t
            IN /\ heap' = m.heap
               /\ arrays' = m.arrays
               /\ ret' = [ret EXCEPT ![t] = Pointer(m.e)]
               /\ err' = [err EXCEPT ![t] = Pointer(m.e)]
               /\ root' = [root EXCEPT ![t] =
                             IF x \in RootsOld THEN x ELSE root[u]]
               /\ calls' = [calls EXCEPT ![t] =
                              IF x \in RootsOld
                              THEN <<[c |-> <<>>, site |-> site]>>
                              ELSE Append(calls[u], [c |-> <<>>, site |-> site])]
               /\ ncalls' = ncalls + 1
    /\ UNCHANGED <<pc, frame, pre, process, result>>

NextOld ==
    \E t \in Callers :
        \E x \in ArgumentsOld : MaskOld(t, x, CallSite(t, ncalls + 1))

SpecOld == InitOld /\ [][NextOld]_vars

\* C15 (trace-only rendering): Stack is "null" for nil, "[]" for an error that
\* is no ErrorValue, and for an ErrorValue the serialization of its Stck: for
\* the result of a chain of Mask calls the array of exactly its entries in
\* order, as many as Mask calls were made on its chain (and "null", the
\* serialization of a nil slice, for an ErrorValue never passed to Mask).
C15_StackRendering ==
    /\ Stack(heap, arrays, Nil) = JsonNull
    /\ \A e \in ForeignErrors : Stack(heap, arrays, e) = JsonArray(<<>>)
    /\ \A k \in MarkersOld : Stack(heap, arrays, k) = JsonNull
    /\ \A t \in Callers :
          err[t] # Nil =>
              LET j == Stack(heap, arrays, err[t])
                  stck == ViewOld(heap, arrays, err[t].id).Stck
              IN /\ j.json = "array"
                 /\ Len(j.elems) = Len(calls[t])
                 /\ Len(j.elems) = Len(stck)
                 /\ \A k \in 1..Len(stck) : j.elems[k] = JsonString(stck[k])

\* A variable holds the result of three Mask calls on a foreign error, whose
\* Stack has three entries, the last the site of the last call.
C15_Witness ==
    \E t \in Callers :
        /\ err[t] # Nil /\ root[t] = ForeignError(1) /\ Len(calls[t]) = 3
        /\ Stack(heap, arrays, err[t]).json = "array"
        /\ Len(Stack(heap, arrays, err[t]).elems) = 3
        /\ Stack(heap, arrays, err[t]).elems[3]
              = JsonString(FormatSite(calls[t][3].site))

\* C19 (a Mask call of this variant changes no instance that existed before
\* it): every instance keeps all its fields, the entries of its Stck
\* included, over every Mask call.
C19_NoInstanceChanged ==
    [][ \A i \in DOMAIN heap :
           /\ i \in DOMAIN heap'
           /\ ViewOld(heap', arrays', i) = ViewOld(heap, arrays, i)
      ]_vars

-----------------------------------------------------------------------------
(* Panic: the program's main holds an error, the result of some Mask calls
   made one after the other, and calls Panic on it. *)

\* The number of Mask calls main has made before it calls Panic.
MaxPanicCalls == 2

\* One whole Mask call (mask.go lines 8-45) run without interruption.
MaskSeq(h, arrs, x, ca, site, t) ==
    LET v == IF ca.spread THEN [slice |-> Buf, arrays |-> arrs]
             ELSE IF x = Nil THEN [slice |-> NilSlice, arrays |-> arrs]
             ELSE variadic(arrs, ca.elems, t)
        r == enter(h, x, v.slice, t)
    IN IF r.returns
       THEN [heap |-> h, arrays |-> arrs, err |-> Nil]
       ELSE LET w == wrap(r.heap, v.arrays, r.e, t)
                a == addContext(w.heap, w.arrays, w.n, v.slice, t)
                b == addTrace(a.heap, a.arrays, w.n, site, t)
            IN [heap |-> b.heap, arrays |-> b.arrays, err |-> Pointer(w.n)]

\* What main holds after the Mask calls with the context arguments cas[1],
\* ..., cas[k], made one after the other on x: each call is given the result
\* of the call before it.
RECURSIVE MaskChain(_, _, _)
MaskChain(x, cas, k) ==
    IF k = 0
    THEN [heap |-> InitialHeap, arrays |-> InitialArrays, err |-> x]
    ELSE LET i == MaskChain(x, cas, k - 1)
         IN MaskSeq(i.heap, i.arrays, i.err, cas[k], CallSite(1, k), 1)

InitPanic ==
    /\ \E x \in {Nil} \cup ChainRoots, k \in 0..MaxPanicCalls :
          \E cas \in [1..k -> CtxArgs] :
              LET i == MaskChain(x, cas, k)
              IN /\ heap = i.heap
                 /\ arrays = i.arrays
                 /\ err = [t \in Callers |-> IF t = 1 THEN i.err ELSE Nil]
    /\ pc = [t \in Callers |-> "idle"]
    /\ frame = [t \in Callers |-> NoFrame]
    /\ ret = [t \in Callers |-> Nil]
    /\ arg = [t \in Callers |-> Nil]
    /\ root = [t \in Callers |-> Nil]
    /\ calls = [t \in Callers |-> <<>>]
    /\ pre = [t \in Callers |-> NoPre]
    /\ ncalls = 0
    /\ stdout = <<>>
    /\ status = Running
    /\ inPanic = NotInPanic
    /\ result = NoResult

\* fmt.Printf("program panic at %s\n", time.Now().UTC().String())
BannerLine == [text |-> "program panic at", time |-> "now"]

\* fmt.Println()
EmptyLine == [text |-> ""]

\* "    " + string(musJsn(t)): the indented JSON of t after four spaces.
JsonLine(h, arrs, t) ==
    [text |-> "    ", json |-> MarshalJSON(View(h, arrs, t)), indent |-> "    "]

\* The value a goroutine panics with on panic(v): v, and for panic(nil) nil
\* or a *runtime.PanicNilError, as the Go version has it.
PanicValues(v) ==
    IF v = Nil THEN {Nil, [kind |-> "PanicNilError", id |-> 0]} ELSE {v}

\* The steps of Panic change nothing but the process.
PanicFrame ==
    UNCHANGED <<heap, arrays, pc, frame, err, ret, arg, root, calls, pre, ncalls,
                result>>

\* main calls Panic(err) on the error it holds.
PanicCall ==
    /\ status = Running /\ inPanic.pc = "main"
    /\ inPanic' = [pc |-> "check", err |-> err[1]]
    /\ UNCHANGED <<stdout, status>>
    /\ PanicFrame

\* panic.go lines 45-48: an error that is no *Error is raised as a panic.
PanicCheck ==
    /\ status = Running /\ inPanic.pc = "check"
    /\ IF inPanic.err.kind = "ptr"
       THEN /\ inPanic' = [inPanic EXCEPT !.pc = "banner"]
            /\ UNCHANGED status
       ELSE /\ \E v \in PanicValues(inPanic.err) :
                  status' = [kind |-> "panic", value |-> v]
            /\ inPanic' = [inPanic EXCEPT !.pc = "unwound"]
    /\ UNCHANGED stdout
    /\ PanicFrame

\* panic.go lines 50-51: the banner and an empty line.
PanicBanner ==
    /\ status = Running /\ inPanic.pc = "banner"
    /\ stdout' = stdout \o <<BannerLine, EmptyLine>>
    /\ inPanic' = [inPanic EXCEPT !.pc = "json"]
    /\ UNCHANGED status
    /\ PanicFrame

\* panic.go lines 52-53: the JSON of the *Error and an empty line.
PanicJson ==
    /\ status = Running /\ inPanic.pc = "json"
    /\ stdout' = stdout \o <<JsonLine(heap, arrays, inPanic.err.id), EmptyLine>>
    /\ inPanic' = [inPanic EXCEPT !.pc = "exit"]
    /\ UNCHANGED status
    /\ PanicFrame

PanicExitReturns ==
    /\ status = Running /\ inPanic.pc = "exit"
    /\ inPanic' = [inPanic EXCEPT !.pc = "returned"]
    /\ UNCHANGED <<stdout, status>>
    /\ PanicFrame

\* panic.go line 55: os.Exit(1) ends the process; line 56 is not reached.
PanicExit ==
    /\ status = Running /\ inPanic.pc = "exit"
    /\ status' = [kind |-> "exit", code |-> 1]
    /\ UNCHANGED <<stdout, inPanic>>
    /\ PanicFrame

NextPanic ==
    \/ PanicCall
    \/ PanicCheck
    \/ PanicBanner
    \/ PanicJson
    \/ PanicExit

\* A goroutine that can run does run: the steps of Panic do not block.
SpecPanic == InitPanic /\ [][NextPanic]_vars /\ WF_vars(NextPanic)

\* C16 (Panic never returns normally): Panic never reaches its return; once
\* called, the process ends: for an *Error with exit status 1 after it has
\* printed exactly the banner, an empty line, the indented JSON rendering of
\* that *Error and an empty line; for a foreign error by a panic whose value
\* is that error, with nothing printed; for nil by a panic, with nothing
\* printed.
C16_PanicNeverReturns ==
    /\ [](inPanic.pc # "returned")
    /\ [](status.kind = "exit" =>
            /\ status.code = 1
            /\ inPanic.err.kind = "ptr"
            /\ stdout = <<BannerLine, EmptyLine,
                          JsonLine(heap, arrays, inPanic.err.id), EmptyLine>>)
    /\ [](status.kind = "panic" =>
            /\ inPanic.err.kind # "ptr"
            /\ stdout = <<>>
            /\ inPanic.err # Nil => status.value = inPanic.err)
    /\ [](stdout # <<>> => inPanic.err.kind = "ptr")
    /\ (inPanic.pc = "check") ~> (status.kind \in {"exit", "panic"})
    /\ [][status # Running => UNCHANGED <<stdout, status, inPanic>>]_vars

\* The process has exited with status 1 after Panic printed the rendering of
\* the result of two Mask calls with context.
C16_Witness ==
    /\ status = [kind |-> "exit", code |-> 1]
    /\ Len(stdout) = 4
    /\ Len(View(heap, arrays, inPanic.err.id).trace) = 2
    /\ Len(View(heap, arrays, inPanic.err.id).Context) >= 2

-----------------------------------------------------------------------------
(* Claims C21 to C23, under Spec. *)

\* An instance is Fresh while it has no cause and Wrapped once it has one.
Fresh(h, i) == h[i].cause = Nil

Wrapped(h, i) == h[i].cause # Nil

\* C21 (state-machine invariant): a Mask call on an error that is not nil
\* returns an *Error; whatever Mask has returned is Wrapped, its cause is a
\* foreign error or a Fresh *Error, never a Wrapped one and never the
\* returned instance itself, and its Unwrap is the root the chain was started
\* from, which has no cause of its own; no instance goes from Wrapped back to
\* Fresh.
C21_StateMachine ==
    /\ [](\A t \in Callers :
            ret[t] # Nil =>
                /\ ret[t].kind = "ptr"
                /\ Wrapped(heap, ret[t].id)
                /\ LET c == Unwrap(heap, ret[t].id)
                   IN /\ c.kind = "ptr" => Fresh(heap, c.id)
                      /\ c # ret[t]
                      /\ c = root[t]
                      /\ cause(heap, c) = c)
    /\ [][/\ \A t \in Callers :
                (pc[t] = "trace" /\ pc'[t] = "idle") => ret'[t].kind = "ptr"
          /\ \A i \in DOMAIN heap :
                Wrapped(heap, i) => (i \in DOMAIN heap' /\ Wrapped(heap', i))]_vars

\* One caller holds the result of two Mask calls on a marker, the other the
\* result of a Mask call on a foreign error.
C21_Witness ==
    /\ ret[1] # Nil /\ Len(calls[1]) >= 2 /\ root[1].kind = "ptr"
    /\ ret[2] # Nil /\ root[2].kind = "foreign"

-----------------------------------------------------------------------------
(* Is on any pair of errors: the program holds two errors, each the result of
   some Mask calls on a root, and calls Is on the errors it has. *)

\* The number of Mask calls made on each of the two roots.
MaxIsCalls == 1

\* The errors the two chains are started from: the foreign errors, the one
\* of an uncomparable type among them, the twin markers and the empty marker.
IsRoots == ForeignErrors \cup Markers

\* The Mask calls with the context arguments cas[1], ..., cas[k] made by
\* caller t one after the other on x, from heap h and arrays arrs.
RECURSIVE MaskChainOn(_, _, _, _, _, _)
MaskChainOn(h, arrs, x, cas, k, t) ==
    IF k = 0
    THEN [heap |-> h, arrays |-> arrs, err |-> x]
    ELSE LET i == MaskChainOn(h, arrs, x, cas, k - 1, t)
         IN MaskSeq(i.heap, i.arrays, i.err, cas[k], CallSite(t, k), t)

InitIs ==
    /\ \E x \in IsRoots, y \in IsRoots :
       \E kx \in 0..MaxIsCalls, ky \in 0..MaxIsCalls :
       \E cx \in [1..kx -> CtxArgs], cy \in [1..ky -> CtxArgs] :
           LET i == MaskChainOn(InitialHeap, InitialArrays, x, cx, kx, 1)
               j == MaskChainOn(i.heap, i.arrays, y, cy, ky, 2)
           IN /\ heap = j.heap
              /\ arrays = j.arrays
              /\ err = [t \in Callers |-> IF t = 1 THEN i.err ELSE j.err]
              /\ root = [t \in Callers |-> IF t = 1 THEN x ELSE y]
              /\ ncalls = kx + ky
    /\ pc = [t \in Callers |-> "idle"]
    /\ frame = [t \in Callers |-> NoFrame]
    /\ ret = [t \in Callers |-> Nil]
    /\ arg = [t \in Callers |-> Nil]
    /\ calls = [t \in Callers |-> <<>>]
    /\ pre = [t \in Callers |-> NoPre]
    /\ stdout = <<>>
    /\ status = Running
    /\ inPanic = NotInPanic
    /\ result = NoResult

\* The errors the program can pass to Is: nil, the roots and the two errors
\* it holds.
IsOperands == {Nil} \cup IsRoots \cup {err[t] : t \in Callers}

\* The *Error instances it can call Is on.
IsReceivers == {x \in IsOperands : x.kind = "ptr"}

\* e.Is(x), the one call the program makes: the comparison returns or the
\* process panics.
IsCall(e, x) ==
    /\ status = Running
    /\ result = NoResult
    /\ LET r == Is(heap, e.id, x)
       IN /\ result' = [op |-> "Is", e |-> e, x |-> x,
                        panics |-> r.panics, value |-> r.value]
          /\ status' = IF r.panics
                       THEN [kind |-> "panic", value |-> "runtime error"]
                       ELSE status
    /\ UNCHANGED <<heap, arrays, pc, frame, err, ret, arg, root, calls, pre,
                   ncalls, stdout, inPanic>>

NextIs == \E e \in IsReceivers, x \in IsOperands : IsCall(e, x)

SpecIs == InitIs /\ [][NextIs]_vars

\* C22 (Is is an equivalence relation): on the errors the program has, e.Is(e)
\* returns true, e.Is(x) and x.Is(e) return the same for *Error values e and
\* x, e.Is(x) and x.Is(y) imply e.Is(y), and the results of Mask calls on the
\* same root match each other.
C22_IsEquivalence ==
    /\ \A e \in IsReceivers :
          Is(heap, e.id, e) = ReturnsTrue
    /\ \A e \in IsReceivers, x \in IsReceivers :
          /\ ~Is(heap, e.id, x).panics
          /\ Is(heap, e.id, x) = Is(heap, x.id, e)
    /\ \A e \in IsReceivers, x \in IsReceivers, y \in IsOperands :
          (Is(heap, e.id, x).value /\ Is(heap, x.id, y).value)
              => Is(heap, e.id, y).value
    /\ (root[1] = root[2] /\ err[1].kind = "ptr" /\ err[2].kind = "ptr")
          => Is(heap, err[1].id, err[2]).value

\* C23 (Is never aborts): e.Is(x) returns true or false for every *Error e
\* and every error x the program has, nil and errors of an uncomparable type
\* included; no call of Is ends in a panic.
C23_IsNeverAborts ==
    /\ \A e \in IsReceivers, x \in IsOperands : ~Is(heap, e.id, x).panics
    /\ result.op = "Is" => ~result.panics
    /\ status.kind # "panic"

-----------------------------------------------------------------------------
(* Maskf of the variant with Anno, Stck and Wrpd, beside its Mask. *)

\* cause of this variant (error_test.go lines 760-773).
causeOld(h, x) ==
    IF x = Nil THEN Nil
    ELSE IF x.kind = "ptr" /\ h[x.id].Wrpd # Nil THEN h[x.id].Wrpd
    ELSE x

\* (*Error).Is of this variant.
IsOld(h, e, x) == Equal(causeOld(h, Pointer(e)), causeOld(h, x))

\* The call e.Is(x) of this variant returns true.
IsOldTrue(h, e, x) == IsOld(h, e, x) = ReturnsTrue

\* The number of Mask and Maskf calls explored together.
MaxMaskfCalls == 3

\* The number of Mask calls made on the error the first variable holds
\* before that.
MaxPreCalls == 3

\* fmt.Sprintf(f, v...) for the formats the program uses, without verbs.
Formats == {"annotation"}

\* What the statement  v_t = Maskf(x, f)  may be given for x, of type
\* Interface: nil, a marker, or the result held in either variable.
ArgumentsMaskf ==
    {Nil} \cup MarkersOld \cup {err[u] : u \in Callers}

maskfAnnotatesFirst(h, arrs, x, f, site, t) ==
    IF x = Nil
    THEN [panics |-> TRUE, heap |-> h, arrays |-> arrs, e |-> 0]
    ELSE LET m == maskOld([h EXCEPT ![x.id].Anno = f], arrs, x, site, t)
         IN [panics |-> FALSE, heap |-> m.heap, arrays |-> m.arrays, e |-> m.e]

\* Maskf (part_000 lines 17-32): mask(e) is called without a nil check, and
\* on nil it calls Error() on a nil interface, a nil dereference; else Anno
\* of the *Error that mask returned is set.
maskf(h, arrs, x, f, site, t) ==
    IF x = Nil
    THEN [panics |-> TRUE, heap |-> h, arrays |-> arrs, e |-> 0]
    ELSE LET m == maskOld(h, arrs, x, site, t)
         IN [panics |-> FALSE,
             heap |-> [m.heap EXCEPT ![m.e].Anno = f],
             arrays |-> m.arrays, e |-> m.e]

\* v_t = Maskf(x, f), at call site site.  The chain's record keeps x, its
\* fields when the call began, and f.
Maskf(t, x, f, site) ==
    /\ x \in ArgumentsMaskf
    /\ x # Nil => ncalls < MaxOldCalls
    /\ arg' = [arg EXCEPT ![t] = x]
    /\ LET m == maskf(heap, arrays, x, f, site, t)
           u == IF \E w \in Callers : err[w] = x
                THEN CHOOSE w \in Callers : err[w] = x ELSE t
       IN IF m.panics
          THEN /\ status' = [kind |-> "panic", value |-> "runtime error"]
               /\ result' = [op |-> "Maskf", x |-> x, panics |-> TRUE]
               /\ UNCHANGED <<heap, arrays, err, ret, root, calls, ncalls>>
          ELSE /\ heap' = m.heap
               /\ arrays' = m.arrays
               /\ ret' = [ret EXCEPT ![t] = Pointer(m.e)]
               /\ err' = [err EXCEPT ![t] = Pointer(m.e)]
               /\ root' = [root EXCEPT ![t] =
                             IF x \in MarkersOld THEN x ELSE root[u]]
               /\ calls' = [calls EXCEPT ![t] =
                              (IF x \in MarkersOld THEN <<>> ELSE calls[u])
                              \o <<[c |-> <<>>, site |-> site, anno |-> f,
                                    x |-> x,
                                    before |-> ViewOld(heap, arrays, x.id)]>>]
               /\ ncalls' = ncalls + 1
               /\ result' = [op |-> "Maskf", x |-> x, panics |-> FALSE]
               /\ UNCHANGED status
    /\ UNCHANGED <<pc, frame, pre, stdout, inPanic>>

\* The Mask calls of this variant made k times one after the other on x, at
\* the sites of file 0.
RECURSIVE MaskOldChain(_, _)
MaskOldChain(x, k) ==
    IF k = 0
    THEN [heap |-> InitialHeapOld, arrays |-> << >>, e |-> 0]
    ELSE LET i == MaskOldChain(x, k - 1)
         IN maskOld(i.heap, i.arrays,
                    IF k = 1 THEN x ELSE Pointer(i.e), CallSite(0, k), 0)

\* The first variable holds nothing, or the result of some Mask calls on a
\* foreign error.
InitMaskf ==
    /\ \E k \in 0..MaxPreCalls :
          LET x == ForeignError(1)
              i == MaskOldChain(x, k)
          IN /\ heap = i.heap
             /\ arrays = i.arrays
             /\ err = [t \in Callers |->
                         IF t = 1 /\ k > 0 THEN Pointer(i.e) ELSE Nil]
             /\ root = [t \in Callers |-> IF t = 1 /\ k > 0 THEN x ELSE Nil]
             /\ calls = [t \in Callers |->
                           IF t = 1
                           THEN [j \in 1..k |->
                                    [c |-> <<>>, site |-> CallSite(0, j)]]
                           ELSE <<>>]
    /\ pc = [t \in Callers |-> "idle"]
    /\ frame = [t \in Callers |-> NoFrame]
    /\ ret = [t \in Callers |-> Nil]
    /\ arg = [t \in Callers |-> Nil]
    /\ pre = [t \in Callers |-> NoPre]
    /\ ncalls = 0
    /\ stdout = <<>>
    /\ status = Running
    /\ inPanic = NotInPanic
    /\ result = NoResult

\* The program runs until it panics.
NextMaskf ==
    /\ status = Running
    /\ ncalls < MaxMaskfCalls
    /\ \/ NextOld
       \/ \E t \in Callers, x \in ArgumentsMaskf, f \in Formats :
             Maskf(t, x, f, CallSite(t, ncalls + 1))

SpecMaskf == InitMaskf /\ [][NextMaskf]_vars

\* The calls of the chain of variable t that are Maskf calls.
MaskfCalls(t) ==
    {k \in 1..Len(calls[t]) : "anno" \in DOMAIN calls[t][k]}

\* Every call made since the k-th call of the chain of variable t was made
\* on the result of the call before it: the sites carry the running number of
\* the call.
OnlyChainSince(t, k) ==
    \A j \in k..Len(calls[t]) :
        calls[t][j].site[2] = ncalls - (Len(calls[t]) - j)

\* C24 (Maskf masks before annotating): when a variable holds the result of
\* Maskf(x, f) followed by any number of Mask calls, each on the result of
\* the call before, x has the annotation and the stack it had when Maskf was
\* called, the result matches x, and the result has the annotation f.
C24_MaskfKeepsCause ==
    \A t \in Callers : \A k \in MaskfCalls(t) :
        OnlyChainSince(t, k) =>
            LET c == calls[t][k]
                v == ViewOld(heap, arrays, c.x.id)
            IN /\ v.Anno = c.before.Anno
               /\ v.Stck = c.before.Stck
               /\ IsOldTrue(heap, err[t].id, c.x)
               /\ heap[err[t].id].Anno = c.anno

\* A variable holds the result of Maskf on the result of three Mask calls,
\* whose Stck has room for one more entry, followed by two Mask calls.
C24_Witness ==
    \E t \in Callers : \E k \in MaskfCalls(t) :
        /\ OnlyChainSince(t, k)
        /\ Len(calls[t]) = k + 2
        /\ Len(calls[t][k].before.Stck) = 3
        /\ heap[calls[t][k].x.id].Stck.cap = 4

\* C25 (Maskf short-circuits on an absent error): a Maskf call on nil does
\* not fail; it returns nil and changes nothing.
C25_MaskfNilPassThrough ==
    /\ status.kind # "panic"
    /\ (result.op = "Maskf" /\ result.x = Nil) => ~result.panics

-----------------------------------------------------------------------------
(* Json: the program holds an error, the result of some Mask calls made one
   after the other, and renders one of the errors it has. *)

\* The errors the program can pass to Json: nil, the foreign errors, the
\* markers and the error it holds.
JsonOperands == {Nil} \cup ForeignErrors \cup Markers \cup {err[1]}

jsonErrorMasks(h, arrs, x, t) ==
    IF x.kind = "ptr"
    THEN [heap |-> h, arrays |-> arrs, n |-> x.id]
    ELSE LET m == MaskSeq(h, arrs, x,
                          [spread |-> FALSE,
                           elems |-> <<Ctx("type", TypeName(x))>>],
                          CallSite(t, 1), t)
         IN [heap |-> m.heap, arrays |-> m.arrays, n |-> m.err.id]

\* Json lines 29-37: the *Error that is marshalled, for an error that is not
\* nil: the error itself when it is an *Error, else a new
\* &Error{Context: []Context{{"type", %T}}, Description: err.Error()}.
jsonError(h, arrs, x, t) ==
    IF x.kind = "ptr"
    THEN [heap |-> h, arrays |-> arrs, n |-> x.id]
    ELSE LET c == variadic(arrs, <<Ctx("type", TypeName(x))>>, t)
             n == NewAddr(h, t)
         IN [heap |-> h @@ (n :> [Context |-> c.slice,
                                  Description |-> Message(h, x),
                                  cause |-> Nil, trace |-> NilSlice]),
             arrays |-> c.arrays, n |-> n]

\* s := Json(x), the one call the program makes (part_001 lines 24-45): "{}"
\* for nil, else the JSON of the *Error of lines 29-37.
JsonCall(x) ==
    /\ status = Running
    /\ result = NoResult
    /\ IF x = Nil
       THEN /\ result' = [op |-> "Json", x |-> x, out |-> JsonObject(<<>>)]
            /\ UNCHANGED <<heap, arrays>>
       ELSE LET j == jsonError(heap, arrays, x, 1)
            IN /\ heap' = j.heap
               /\ arrays' = j.arrays
               /\ result' = [op |-> "Json", x |-> x,
                             out |-> MarshalJSON(View(j.heap, j.arrays, j.n))]
    /\ UNCHANGED <<pc, frame, err, ret, arg, root, calls, pre, ncalls, process>>

NextJson == \E x \in JsonOperands : JsonCall(x)

SpecJson == InitPanic /\ [][NextJson]_vars

\* What Json renders for a foreign error of type name ty with description d.
ForeignRendering(ty, d) ==
    JsonObject(
        <<Member("context", JsonArray(<<MarshalContext(Ctx("type", ty))>>)),
          Member("description", JsonString(d))>>)

\* The call leaves every instance and every array that was there as it was,
\* and what it adds has no cause and no trace entry.
JsonChangesNothing ==
    /\ err' = err
    /\ \A i \in DOMAIN heap : i \in DOMAIN heap' /\ heap'[i] = heap[i]
    /\ \A a \in DOMAIN arrays : a \in DOMAIN arrays' /\ arrays'[a] = arrays[a]
    /\ \A i \in DOMAIN heap' \ DOMAIN heap :
          heap'[i].cause = Nil /\ heap'[i].trace.len = 0

\* C26 as claimed, its rendering part: Json of an error that is no ErrorValue
\* renders the error's message as description, whatever the message, with the
\* single context entry "type" and no trace.
C26_Original ==
    (result.op = "Json" /\ result.x.kind = "foreign") =>
        result.out = ForeignRendering(ForeignType[result.x.id],
                                      ForeignMessage[result.x.id])

\* C26 (amended): Json of an error that is no ErrorValue renders exactly the
\* members context and description: the context is the single entry with key
\* "type" and the name of the error's dynamic type ("*errors.errorString" for
\* the errors of fmt.Errorf and errors.New, "main.listError" for the value of
\* the caller's slice type), the description is the error's message when it
\* is not empty and "ERROR" when it is empty; there is no trace; the call
\* changes no instance and no array and records no trace entry, and the
\* rendering is that of Json as a function.
C26_JsonOfForeignError ==
    /\ []((result.op = "Json" /\ result.x.kind = "foreign") =>
            /\ result.x \in {ForeignError(1), ForeignError(2)} =>
                  result.out
                    = ForeignRendering("*errors.errorString", "testErrorOne")
            /\ result.x = EmptyMessageError =>
                  result.out = ForeignRendering("*errors.errorString", "ERROR")
            /\ result.x = UncomparableError =>
                  result.out = ForeignRendering("main.listError", "testErrorOne")
            /\ \A j \in 1..Len(result.out.members) :
                  result.out.members[j].name # "trace"
            /\ result.out = Json(heap, arrays, result.x))
    /\ [][JsonChangesNothing]_vars

\* Json was called on the foreign error without a message while the program
\* holds the result of two Mask calls on a foreign error.
C26_Witness ==
    /\ result.op = "Json" /\ result.x = EmptyMessageError
    /\ err[1].kind = "ptr" /\ Unwrap(heap, err[1].id) = ForeignError(1)
    /\ Len(View(heap, arrays, err[1].id).trace) = 2
    /\ result.out.members[2].value = JsonString("ERROR")

-----------------------------------------------------------------------------
(* Mask on any foreign error: the first caller has been handed a foreign
   error of any kind and masks it, beside a second caller that starts its
   chains as before. *)

InitForeign ==
    /\ \E e \in ForeignErrors :
          /\ err = [t \in Callers |-> IF t = 1 THEN e ELSE Nil]
          /\ root = [t \in Callers |-> IF t = 1 THEN e ELSE Nil]
    /\ heap = InitialHeap
    /\ arrays = InitialArrays
    /\ pc = [t \in Callers |-> "idle"]
    /\ frame = [t \in Callers |-> NoFrame]
    /\ ret = [t \in Callers |-> Nil]
    /\ arg = [t \in Callers |-> Nil]
    /\ calls = [t \in Callers |-> <<>>]
    /\ pre = [t \in Callers |-> NoPre]
    /\ ncalls = 0
    /\ stdout = <<>>
    /\ status = Running
    /\ inPanic = NotInPanic
    /\ result = NoResult

SpecForeign == InitForeign /\ [][Next]_vars

====
